---- MODULE Spec2Model ----
(***************************************************************************)
(* httpmon: a pool of HTTP client threads (httpClientMain) driven by the   *)
(* control loop of main, which every tick drains the statistics (report),  *)
(* applies reconfiguration lines read from stdin (processInput) and        *)
(* reconciles the thread pool with control.concurrency.                    *)
(*                                                                         *)
(* Conventions of the model                                                *)
(*  - C++ vectors and strings are 0-indexed; TLA+ sequences are 1-indexed. *)
(*    Operators that take positions take the C++ (0-based) position.       *)
(*  - A latency is an integer number of milliseconds; the values drawn are *)
(*    even, so that the mean of two of them is exact.                      *)
(*  - A character of the reconfiguration text is one element of a          *)
(*    sequence, so that positions in the input buffer are the positions   *)
(*    the code computes.                                                   *)
(***************************************************************************)
EXTENDS Integers, Sequences, FiniteSets, TLC

(***************************************************************************)
(* Bounds of the model.                                                    *)
(***************************************************************************)
MaxBudget == 2        \* largest --count
MaxThreads == 3       \* thread slots the model has
MaxSamples == 4       \* longest sample vector given to the statistics alone
MaxPieces == 4        \* longest reconfiguration text, in pieces

(***************************************************************************)
(* Program constants.                                                      *)
(***************************************************************************)
OPTIONAL_STUFF1 == 1
OPTIONAL_STUFF2 == 2
NAN == -1             \* the NAN sentinel; no latency is negative
SIGINT == 2           \* signal number sigtimedwait returns on an interrupt
NoSignal == -1        \* sigtimedwait's return value on timeout

(***************************************************************************)
(* C integer arithmetic: / and % truncate towards zero.                    *)
(***************************************************************************)
CDiv(a, b) == IF a >= 0 THEN a \div b ELSE -((-a) \div b)
CMod(a, b) == a - b * CDiv(a, b)

Min(a, b) == IF a <= b THEN a ELSE b
Max(a, b) == IF a >= b THEN a ELSE b

(***************************************************************************)
(* std::sort of a vector of latencies (ascending).                         *)
(***************************************************************************)
RECURSIVE InsertSorted(_, _)
InsertSorted(s, x) ==
    IF s = <<>> THEN <<x>>
    ELSE IF x <= Head(s) THEN <<x>> \o s
    ELSE <<Head(s)>> \o InsertSorted(Tail(s), x)

RECURSIVE StdSort(_)
StdSort(s) == IF s = <<>> THEN <<>> ELSE InsertSorted(StdSort(Tail(s)), Head(s))

(***************************************************************************)
(* Dereference of the iterator a.begin() + i.  Inside the vector it yields *)
(* the element; outside it the read is undefined behaviour and yields the  *)
(* value g that happens to lie there.                                      *)
(***************************************************************************)
Deref(a, i, g) == IF i >= 0 /\ i < Len(a) THEN a[i + 1] ELSE g

(***************************************************************************)
(* median(begin, end) with begin = a.begin() + b and end = a.begin() + e.  *)
(* medianReads is the set of positions of a the call dereferences.         *)
(***************************************************************************)
median(a, b, e, g) ==
    LET n == e - b
    IN  IF CMod(n - 1, 2) = 0
        THEN Deref(a, b + CDiv(n - 1, 2), g)
        ELSE (Deref(a, b + CDiv(n - 1, 2), g)
              + Deref(a, b + CDiv(n - 1, 2) + 1, g)) \div 2

medianReads(b, e) ==
    LET n == e - b
    IN  IF CMod(n - 1, 2) = 0
        THEN {b + CDiv(n - 1, 2)}
        ELSE {b + CDiv(n - 1, 2), b + CDiv(n - 1, 2) + 1}

(***************************************************************************)
(* quartiles(a): minimum, first quartile, median, third quartile, maximum. *)
(* The argument is sorted in place; quartilesReads gives the positions     *)
(* read in the sorted vector.                                              *)
(***************************************************************************)
quartiles(a, g) ==
    LET n == Len(a)
        s == StdSort(a)
    IN  IF n < 1 THEN <<NAN, NAN, NAN, NAN, NAN>>
        ELSE << s[1],
                median(s, 0, n \div 2, g),
                median(s, 0, n, g),
                median(s, n \div 2, n, g),
                s[n] >>

quartilesReads(a) ==
    LET n == Len(a)
    IN  IF n < 1 THEN {}
        ELSE {0, n - 1} \cup medianReads(0, n) \cup medianReads(0, n \div 2)
             \cup medianReads(n \div 2, n)

(***************************************************************************)
(* percentiles(a): the two tail statistics.                                *)
(***************************************************************************)
percentiles(a, g) ==
    LET n == Len(a)
        s == StdSort(a)
    IN  IF n < 1 THEN <<NAN, NAN>>
        ELSE << median(s, (90 * n) \div 100, n, g),
                median(s, (98 * n) \div 100, n, g) >>

percentilesReads(a) ==
    LET n == Len(a)
    IN  IF n < 1 THEN {}
        ELSE medianReads((90 * n) \div 100, n) \cup medianReads((98 * n) \div 100, n)

RECURSIVE SumSeq(_)
SumSeq(s) == IF s = <<>> THEN 0 ELSE Head(s) + SumSeq(Tail(s))

(***************************************************************************)
(* average(a): sum / size; 0.0 / 0 is NaN.  The quotient is rounded down   *)
(* to a whole millisecond.                                                 *)
(***************************************************************************)
average(a) == IF Len(a) = 0 THEN NAN ELSE SumSeq(a) \div Len(a)

(***************************************************************************)
(* (double)count / latencies.size(), here in percent: 0 / 0 is NaN, and a  *)
(* positive count over 0 is infinity.                                      *)
(***************************************************************************)
Infinity == -2

Rate(count, n) ==
    IF n = 0 THEN (IF count = 0 THEN NAN ELSE Infinity)
    ELSE (100 * count) \div n

(***************************************************************************)
(* Reconfiguration text.                                                   *)
(***************************************************************************)
NL == "\n"
SP == " "
EQ == "="
npos == -1

(* The key words of processInput, lines 294-305, character by character.    *)
KeyThinktime == <<"t", "h", "i", "n", "k", "t", "i", "m", "e">>
KeyConcurrency == <<"c", "o", "n", "c", "u", "r", "r", "e", "n", "c", "y">>
KeyOpen == <<"o", "p", "e", "n">>
KeyFoo == <<"f", "o", "o">>

Digits == {"0", "1", "2", "3"}
DigitVal(c) == CASE c = "0" -> 0 [] c = "1" -> 1 [] c = "2" -> 2 [] c = "3" -> 3

(***************************************************************************)
(* s.find_first_of(c, pos): the first position >= pos holding c, or npos.  *)
(***************************************************************************)
find_first_of(s, c, pos) ==
    LET hits == {i \in 0..(Len(s) - 1) : i >= pos /\ s[i + 1] = c}
    IN  IF hits = {} THEN npos
        ELSE CHOOSE i \in hits : \A j \in hits : i <= j

(***************************************************************************)
(* s.substr(pos, n) and the tail left by s.erase(0, n).                    *)
(***************************************************************************)
substr(s, pos, n) == SubSeq(s, pos + 1, Min(pos + n, Len(s)))
erase(s, n) == SubSeq(s, Min(n, Len(s)) + 1, Len(s))

(***************************************************************************)
(* boost::algorithm::split(result, s, is_any_of(seps), token_compress_on): *)
(* s is cut at every maximal run of separators; a separator at either end  *)
(* leaves an empty part there, and a text with no separator is one part.   *)
(***************************************************************************)
RECURSIVE split(_, _)
split(s, seps) ==
    LET hits == {i \in 1..Len(s) : s[i] \in seps}
    IN  IF hits = {} THEN <<s>>
        ELSE LET i == CHOOSE k \in hits : \A j \in hits : k <= j
                 after == {k \in (i + 1)..Len(s) : s[k] \notin seps}
                 j == IF after = {} THEN Len(s) + 1
                      ELSE CHOOSE k \in after : \A m \in after : k <= m
             IN  <<SubSeq(s, 1, i - 1)>> \o split(SubSeq(s, j, Len(s)), seps)

(***************************************************************************)
(* atoi: an optional sign, then the leading digits; 0 when there is none.  *)
(* atof reads the same texts (the model's numbers have no fraction).       *)
(***************************************************************************)
RECURSIVE atoiDigits(_, _)
atoiDigits(s, acc) ==
    IF s = <<>> \/ Head(s) \notin Digits THEN acc
    ELSE atoiDigits(Tail(s), 10 * acc + DigitVal(Head(s)))

atoi(s) ==
    IF s # <<>> /\ Head(s) = "-" THEN -atoiDigits(Tail(s), 0)
    ELSE atoiDigits(s, 0)

atof(s) == atoi(s)

(***************************************************************************)
(* The body of the "Parse key values" loop for one token: ctl is the       *)
(* record of the three tunable fields of control.                          *)
(***************************************************************************)
applyToken(tok, ctl) ==
    LET keyvalue == split(tok, {EQ})
    IN  IF Len(keyvalue) # 2 THEN ctl
        ELSE LET key == keyvalue[1]
                 value == keyvalue[2]
             IN  IF key = KeyThinktime
                     THEN [ctl EXCEPT !.thinkTime = atof(value)]
                 ELSE IF key = KeyConcurrency
                     THEN [ctl EXCEPT !.concurrency = atoi(value)]
                 ELSE IF key = KeyOpen
                     THEN [ctl EXCEPT !.open = (atoi(value) # 0)]
                 ELSE ctl

RECURSIVE applyTokens(_, _)
applyTokens(tokens, ctl) ==
    IF tokens = <<>> THEN ctl
    ELSE applyTokens(Tail(tokens), applyToken(Head(tokens), ctl))

(***************************************************************************)
(* The "Parse line by line" loop of processInput: every search for the     *)
(* newline starts at prevInputSize, the size the buffer had on entry.      *)
(***************************************************************************)
RECURSIVE parseLines(_, _, _)
parseLines(input, prevInputSize, ctl) ==
    LET newlineFound == find_first_of(input, NL, prevInputSize)
    IN  IF newlineFound = npos THEN [input |-> input, ctl |-> ctl]
        ELSE LET line == substr(input, 0, newlineFound)
                 tokens == split(line, {SP, NL})
             IN  parseLines(erase(input, newlineFound + 1), prevInputSize,
                            applyTokens(tokens, ctl))

(***************************************************************************)
(* processInput(input, control) when the reads of stdin return data.       *)
(***************************************************************************)
processInput(input, data, ctl) ==
    IF Len(input \o data) = Len(input) THEN [input |-> input, ctl |-> ctl]
    ELSE parseLines(input \o data, Len(input), ctl)

(***************************************************************************)
(* State.                                                                  *)
(*  control            the HttpClientControl structure                     *)
(*  pcMain             position of main                                    *)
(*  httpClientThreads  main's vector of tracked threads (thread slots)     *)
(*  signo, totalRequests, prevInput   locals of main                       *)
(*  rep                locals of report: the drained values, then the line *)
(*                     it prints                                           *)
(*  thread             per thread slot: position, pending SIGUSR2 and the  *)
(*                     times of the thread                                 *)
(*  stdin              reconfiguration text not yet read                   *)
(*  process            "running", "exited" (main returned), "killed" (a    *)
(*                     signal's default action), whether                   *)
(*                     curl_global_cleanup has run, and whether the run    *)
(*                     follows the time (clock)                            *)
(*  hist               history: what was configured and what has happened  *)
(***************************************************************************)
VARIABLES control, pcMain, httpClientThreads, signo, totalRequests, prevInput,
          rep, thread, stdin, process, hist

vars == << control, pcMain, httpClientThreads, signo, totalRequests, prevInput,
           rep, thread, stdin, process, hist >>

Threads == 1..MaxThreads

INT_MAX == 2147483647

(***************************************************************************)
(* Values the environment supplies.                                        *)
(***************************************************************************)
ThinkTimes == {0, 1}
Concurrencies == {1, 2}
Garbage == {0, 1000}
Outcomes == {[error |-> FALSE, optionalStuff |-> 1, lastLatency |-> 2],
             [error |-> TRUE, optionalStuff |-> 2, lastLatency |-> 4]}

(***************************************************************************)
(* --control.numRequestsLeft.  INT_MAX, the default of --count, stands for *)
(* every budget too large to run out: it stays INT_MAX.                    *)
(***************************************************************************)
DecrementNever(n) == n

Decrement(n) == IF n = INT_MAX THEN INT_MAX ELSE n - 1

(***************************************************************************)
(* The counters of the statistics stop growing at StatCap.  Under a budget *)
(* of at most MaxBudget no counter reaches it (CapNeverBinds).  Under the  *)
(* INT_MAX budget, which Decrement never lowers, the statistics would grow *)
(* without end: they are kept to one sample, which leaves the control flow *)
(* of main and of the threads as it is.                                    *)
(***************************************************************************)
StatCap == IF control.numRequestsLeft = INT_MAX THEN 1 ELSE MaxBudget + 1
Inc(n) == IF n >= StatCap THEN n ELSE n + 1
push_back(v, x) == IF Len(v) >= StatCap THEN v ELSE Append(v, x)

LastN(s, n) == SubSeq(s, Len(s) - Min(n, Len(s)) + 1, Len(s))

BitSet(mask, bit) == (mask \div bit) % 2 = 1

NoReport == [numErrors |-> 0, numOptionalStuff1 |-> 0, numOptionalStuff2 |-> 0,
             latencies |-> <<>>, printed |-> FALSE, quartiles |-> <<>>,
             percentiles |-> <<>>, average |-> NAN, rr |-> NAN, cr |-> NAN,
             numOpenQueuing |-> 0, oob |-> FALSE, totalRequests |-> 0,
             fresh |-> 0, appended |-> 0, prevTotal |-> 0, prevBatch |-> 0,
             second |-> FALSE]

(***************************************************************************)
(* A thread slot: the position of the thread and its pending SIGUSR2, and  *)
(* the times the thread works with, in whole time units on the thread's    *)
(* own clock: what now() returns (now), the local lastArrivalTime, the     *)
(* time the wait in progress ends (wake) and the latency of its last       *)
(* request; iterations counts the think times it has begun, and slow tells *)
(* whether every interval sampled after the first was shorter than the     *)
(* latency of the request before it.  The times are followed only in a run *)
(* with process.clock set; in the other runs the outcome of the comparison *)
(* of line 161 is a free choice.                                           *)
(***************************************************************************)
ThreadInit == [pc |-> "unborn", sigusr2 |-> FALSE, now |-> 0,
               lastArrivalTime |-> 0, wake |-> 0, lastLatency |-> 0,
               iterations |-> 0, slow |-> TRUE]

Timed == process.clock
Intervals == {1, 3}

(***************************************************************************)
(* std::thread(httpClientMain, ...): the thread starts in the first free   *)
(* slot.                                                                   *)
(***************************************************************************)
FreeSlots(th) == {t \in Threads : th[t].pc = "unborn"}
FirstFree(th) == CHOOSE t \in FreeSlots(th) : \A u \in FreeSlots(th) : t <= u

RECURSIVE emplace_back(_, _)
emplace_back(st, n) ==
    IF n <= 0 THEN st
    ELSE LET t == FirstFree(st.th)
         IN  emplace_back([th |-> [st.th EXCEPT ![t].pc = "start"],
                           pool |-> Append(st.pool, t)], n - 1)

Alive == process.state = "running"

(***************************************************************************)
(* pthread_kill(t, SIGUSR2) for every t of the set S.  A thread that has   *)
(* blocked SIGUSR2 keeps it pending; a thread that has returned is not     *)
(* affected; a thread that has not yet blocked it takes the default        *)
(* action, which terminates the process.                                   *)
(***************************************************************************)
pthread_kill(th, S) ==
    [t \in Threads |->
        IF t \in S /\ th[t].pc \notin {"unborn", "start", "exited"}
        THEN [th[t] EXCEPT !.sigusr2 = TRUE] ELSE th[t]]

KillsProcess(th, S) == \E t \in S : th[t].pc = "start"

(***************************************************************************)
(* httpClientMain, lines 120-143: block SIGUSR2; lastArrivalTime = now().   *)
(***************************************************************************)
ThreadStart(t) ==
    /\ Alive
    /\ thread[t].pc = "start"
    /\ thread' = [thread EXCEPT ![t].pc = "loop",
                                ![t].lastArrivalTime = thread[t].now]
    /\ UNCHANGED << control, pcMain, httpClientThreads, signo, totalRequests,
                    prevInput, rep, stdin, process, hist >>

(***************************************************************************)
(* Lines 144-166: --control.numRequestsLeft, and while it is >= 0 the      *)
(* think time.  With thinkTime > 0 the thread samples an interval and, in  *)
(* the open model, counts the arrival as queued when it is already due     *)
(* (due is now() >= lastArrivalTime + interval), then waits; otherwise it  *)
(* goes straight to the request.                                           *)
(***************************************************************************)
Queued(c, due) ==
    IF c.open /\ due THEN [c EXCEPT !.numOpenQueuing = Inc(@)] ELSE c

(* Lines 155-166: the interval slept, max(nextArrivalTime - now(), 0.0) in *)
(* the open model, and the locals of the thread after the think time has   *)
(* begun.                                                                  *)
SleepClosed(th, open, interval) == interval

Sleep(th, open, interval) ==
    IF open THEN Max(th.lastArrivalTime + interval - th.now, 0) ELSE interval

Think(th, open, interval) ==
    IF Timed
    THEN [th EXCEPT !.pc = "wait",
                    !.lastArrivalTime = IF open THEN @ + interval ELSE @,
                    !.wake = th.now + Sleep(th, open, interval),
                    !.iterations = @ + 1,
                    !.slow = @ /\ (th.iterations = 0 \/ interval < th.lastLatency)]
    ELSE [th EXCEPT !.pc = "wait"]

ThreadLoop(t) ==
    /\ Alive
    /\ thread[t].pc = "loop"
    /\ LET left == Decrement(control.numRequestsLeft)
           c == [control EXCEPT !.numRequestsLeft = left]
       IN  IF left < 0
           THEN /\ control' = c
                /\ thread' = [thread EXCEPT ![t].pc = "exited"]
                /\ hist' = hist
           ELSE IF c.thinkTime > 0
           THEN /\ \E interval \in (IF Timed THEN Intervals ELSE {0}),
                      free \in (IF c.open /\ ~Timed THEN BOOLEAN ELSE {FALSE}) :
                     LET due == IF Timed
                                THEN Sleep(thread[t], c.open, interval) = 0
                                ELSE free
                     IN  /\ control' = Queued(c, due)
                         /\ thread' = [thread EXCEPT
                                         ![t] = Think(@, c.open, interval)]
                /\ hist' = hist
           ELSE /\ control' = c
                /\ thread' = [thread EXCEPT ![t].pc = "send"]
                /\ hist' = [hist EXCEPT !.sent = Inc(hist.sent)]
    /\ UNCHANGED << pcMain, httpClientThreads, signo, totalRequests,
                    prevInput, rep, stdin, process >>

(***************************************************************************)
(* Lines 168-172: sigtimedwait returns SIGUSR2 when it is pending (the     *)
(* thread leaves the loop), and times out otherwise.                       *)
(***************************************************************************)
ThreadWait(t) ==
    /\ Alive
    /\ thread[t].pc = "wait"
    /\ IF thread[t].sigusr2
       THEN /\ thread' = [thread EXCEPT ![t].pc = "exited", ![t].sigusr2 = FALSE]
            /\ hist' = hist
       ELSE /\ thread' = [thread EXCEPT ![t].pc = "send", ![t].now = thread[t].wake]
            /\ hist' = [hist EXCEPT !.sent = Inc(hist.sent)]
    /\ UNCHANGED << control, pcMain, httpClientThreads, signo, totalRequests,
                    prevInput, rep, stdin, process >>

(***************************************************************************)
(* Lines 184-193: the critical section that adds the request to the        *)
(* statistics.                                                             *)
(***************************************************************************)
RecordSkipsFailedSample(c, error, optionalStuff, lastLatency) ==
    [c EXCEPT
       !.numErrors = IF error THEN Inc(@) ELSE @,
       !.numOptionalStuff1 = IF BitSet(optionalStuff, OPTIONAL_STUFF1)
                             THEN Inc(@) ELSE @,
       !.numOptionalStuff2 = IF BitSet(optionalStuff, OPTIONAL_STUFF2)
                             THEN Inc(@) ELSE @,
       !.latencies = IF error THEN @ ELSE push_back(@, lastLatency)]

Record(c, error, optionalStuff, lastLatency) ==
    [c EXCEPT
       !.numErrors = IF error THEN Inc(@) ELSE @,
       !.numOptionalStuff1 = IF BitSet(optionalStuff, OPTIONAL_STUFF1)
                             THEN Inc(@) ELSE @,
       !.numOptionalStuff2 = IF BitSet(optionalStuff, OPTIONAL_STUFF2)
                             THEN Inc(@) ELSE @,
       !.latencies = push_back(@, lastLatency)]

(***************************************************************************)
(* Lines 176-197: curl_easy_perform returns with outcome o (the locals     *)
(* error, optionalStuff and lastLatency) and the thread records it.  The   *)
(* return of the request touches only locals of the thread, so it is one   *)
(* step with the critical section that follows it.                         *)
(***************************************************************************)
ThreadSend(t) ==
    /\ Alive
    /\ thread[t].pc = "send"
    /\ \E o \in Outcomes :
         /\ control' = Record(control, o.error, o.optionalStuff, o.lastLatency)
         /\ thread' = [thread EXCEPT
                         ![t].pc = "loop",
                         ![t].now = IF Timed THEN @ + o.lastLatency ELSE @,
                         ![t].lastLatency = IF Timed THEN o.lastLatency ELSE @]
    /\ hist' = [hist EXCEPT !.appended = Inc(hist.appended),
                            !.sinceDrain = Inc(hist.sinceDrain),
                            !.ids = LastN(push_back(@, Inc(hist.appended)),
                                          Len(control'.latencies))]
    /\ UNCHANGED << pcMain, httpClientThreads, signo, totalRequests,
                    prevInput, rep, stdin, process >>

(***************************************************************************)
(* report, lines 213-226: the critical section that copies the statistics  *)
(* into the locals of report and resets them.                              *)
(***************************************************************************)
DrainLocals(c) ==
    [NoReport EXCEPT !.numErrors = c.numErrors,
                     !.numOptionalStuff1 = c.numOptionalStuff1,
                     !.numOptionalStuff2 = c.numOptionalStuff2,
                     !.latencies = c.latencies]

DrainHistory(r) ==
    [r EXCEPT !.fresh = hist.sinceDrain, !.appended = hist.appended,
              !.prevTotal = totalRequests, !.prevBatch = hist.lastBatch,
              !.second = hist.drained]

DrainResetKeepsSamples(c) ==
    [c EXCEPT !.numErrors = 0, !.numOptionalStuff1 = 0,
              !.numOptionalStuff2 = 0]

DrainResetKeepsErrors(c) ==
    [c EXCEPT !.numOptionalStuff1 = 0, !.numOptionalStuff2 = 0,
              !.latencies = <<>>]

DrainResetClearsQueuing(c) ==
    [c EXCEPT !.numErrors = 0, !.numOptionalStuff1 = 0,
              !.numOptionalStuff2 = 0, !.latencies = <<>>,
              !.numOpenQueuing = 0]

DrainResetKeepsClassifiers(c) ==
    [c EXCEPT !.numErrors = 0, !.latencies = <<>>]

DrainReset(c) ==
    [c EXCEPT !.numErrors = 0, !.numOptionalStuff1 = 0,
              !.numOptionalStuff2 = 0, !.latencies = <<>>]

ReportDrain ==
    /\ rep' = DrainHistory(DrainLocals(control))
    /\ control' = DrainReset(control)
    /\ hist' = [hist EXCEPT
                  !.drained = TRUE,
                  !.lastBatch = Len(control.latencies),
                  !.sinceDrain = 0,
                  !.returned = IF Len(@) + Len(hist.ids) > StatCap THEN @
                               ELSE @ \o hist.ids,
                  !.ids = LastN(hist.ids, Len(control'.latencies))]

(***************************************************************************)
(* report, lines 228-251: the statistics of the drained samples and the    *)
(* line printed.  g is what a read outside the sample vector yields.       *)
(***************************************************************************)
StatReads(a) == quartilesReads(a) \cup percentilesReads(a)
OutOfBounds(a) == \E i \in StatReads(a) : i < 0 \/ i >= Len(a)

ReportLine(r, g, queuing, total) ==
    [r EXCEPT !.printed = TRUE,
              !.totalRequests = total,
              !.quartiles = quartiles(r.latencies, g),
              !.percentiles = percentiles(r.latencies, g),
              !.average = average(r.latencies),
              !.rr = Rate(r.numOptionalStuff1, Len(r.latencies)),
              !.cr = Rate(r.numOptionalStuff2, Len(r.latencies)),
              !.numOpenQueuing = queuing,
              !.oob = OutOfBounds(r.latencies)]

AddTotal(total, n) == Min(total + n, StatCap)

ReportEmit ==
    /\ totalRequests' = AddTotal(totalRequests, Len(rep.latencies))
    /\ \E g \in (IF OutOfBounds(rep.latencies) THEN Garbage ELSE {0}) :
         rep' = ReportLine(rep, g, control.numOpenQueuing, totalRequests')

(***************************************************************************)
(* main, lines 403-408: the test of the control loop and, when it passes,  *)
(* sigtimedwait, which returns at the tick or, when an external SIGINT or  *)
(* SIGQUIT arrives (stop), with that signal.  main has blocked both, and   *)
(* nothing else reads them, so the arrival is placed at the wait.          *)
(***************************************************************************)
MainLoop ==
    /\ Alive
    /\ pcMain = "loop"
    /\ IF control.running /\ control.numRequestsLeft > 0
       THEN /\ pcMain' = "report"
            /\ \E stop \in BOOLEAN :
                 IF stop
                 THEN /\ signo' = SIGINT
                      /\ control' = [control EXCEPT !.running = FALSE]
                      /\ hist' = [hist EXCEPT !.stopped = TRUE]
                 ELSE /\ signo' = NoSignal
                      /\ UNCHANGED << control, hist >>
       ELSE /\ pcMain' = "cleanup"
            /\ UNCHANGED << signo, control, hist >>
    /\ UNCHANGED << httpClientThreads, totalRequests, prevInput, rep, thread,
                    stdin, process >>

(***************************************************************************)
(* main, line 410: report, in its two steps.                               *)
(***************************************************************************)
MainReport ==
    /\ Alive
    /\ pcMain = "report"
    /\ ReportDrain
    /\ pcMain' = "emit"
    /\ UNCHANGED << httpClientThreads, signo, totalRequests, prevInput,
                    thread, stdin, process >>

MainEmit ==
    /\ Alive
    /\ pcMain = "emit"
    /\ ReportEmit
    /\ pcMain' = "input"
    /\ UNCHANGED << control, httpClientThreads, signo, prevInput, thread,
                    stdin, process, hist >>

(***************************************************************************)
(* main, line 411: processInput.  The reads return data, a prefix of the   *)
(* text that has been written to stdin.                                    *)
(***************************************************************************)
(***************************************************************************)
(* History of the text written to stdin, kept beside processInput: carry   *)
(* is the text after the last newline read so far, expected the tunables   *)
(* after applying, in order, every token of every line completed so far,   *)
(* and malformed tells whether the lines completed by the last read held a *)
(* token, not empty, that does not split on '=' into two parts.            *)
(***************************************************************************)
LastNewline(s) ==
    LET hits == {i \in 1..Len(s) : s[i] = NL}
    IN  IF hits = {} THEN 0 ELSE CHOOSE i \in hits : \A j \in hits : j <= i

Malformed(tok) == tok # <<>> /\ Len(split(tok, {EQ})) # 2

Reference(w, data) ==
    LET text == w.carry \o data
        last == LastNewline(text)
        tokens == split(SubSeq(text, 1, last - 1), {SP, NL})
    IN  IF last = 0
        THEN [w EXCEPT !.carry = text, !.malformed = FALSE]
        ELSE [carry |-> SubSeq(text, last + 1, Len(text)),
              expected |-> applyTokens(tokens, w.expected),
              malformed |-> \E i \in 1..Len(tokens) : Malformed(tokens[i])]

Tunables(c) == [thinkTime |-> c.thinkTime, concurrency |-> c.concurrency,
                open |-> c.open]

ReadInput(data) ==
    LET out == processInput(prevInput, data, Tunables(control))
    IN  /\ prevInput' = out.input
        /\ control' = [control EXCEPT !.thinkTime = out.ctl.thinkTime,
                                      !.concurrency = out.ctl.concurrency,
                                      !.open = out.ctl.open]
        /\ stdin' = SubSeq(stdin, Len(data) + 1, Len(stdin))
        /\ hist' = [hist EXCEPT !.written = Reference(@, data)]

MainInput ==
    /\ Alive
    /\ pcMain = "input"
    /\ \E data \in {<<>>, stdin} : ReadInput(data)
    /\ rep' = NoReport
    /\ pcMain' = "reconcile"
    /\ UNCHANGED << httpClientThreads, signo, totalRequests, thread,
                    process >>

(***************************************************************************)
(* main, lines 413-421: the pool is grown, then shrunk, to                 *)
(* control.concurrency.  A shrink signals, detaches and drops the thread   *)
(* at the back until size() > concurrency is false; with a negative        *)
(* concurrency that is still true of the empty vector, and back() is then  *)
(* called on it (underflow).                                               *)
(***************************************************************************)
ReconcileOnce(pool, th, c) ==
    IF Len(pool) < c
    THEN LET st == emplace_back([th |-> th, pool |-> pool], 1)
         IN  [pool |-> st.pool, th |-> st.th, victims |-> {},
              underflow |-> FALSE, kills |-> FALSE]
    ELSE IF Len(pool) > c /\ Len(pool) > 0
    THEN LET victims == {pool[Len(pool)]}
         IN  [pool |-> SubSeq(pool, 1, Len(pool) - 1),
              th |-> pthread_kill(th, victims),
              victims |-> victims,
              underflow |-> FALSE,
              kills |-> KillsProcess(th, victims)]
    ELSE [pool |-> pool, th |-> th, victims |-> {}, underflow |-> FALSE,
          kills |-> FALSE]

Reconcile(pool, th, c) ==
    IF Len(pool) < c
    THEN LET st == emplace_back([th |-> th, pool |-> pool], c - Len(pool))
         IN  [pool |-> st.pool, th |-> st.th, victims |-> {},
              underflow |-> FALSE, kills |-> FALSE]
    ELSE LET keep == Max(c, 0)
             victims == {pool[i] : i \in (keep + 1)..Len(pool)}
         IN  [pool |-> SubSeq(pool, 1, keep),
              th |-> pthread_kill(th, victims),
              victims |-> victims,
              underflow |-> c < 0,
              kills |-> KillsProcess(th, victims)]

MainReconcile ==
    /\ Alive
    /\ pcMain = "reconcile"
    /\ control.concurrency - Len(httpClientThreads) <= Cardinality(FreeSlots(thread))
    /\ LET r == Reconcile(httpClientThreads, thread, control.concurrency)
       IN  /\ httpClientThreads' = r.pool
           /\ thread' = r.th
           /\ hist' = [hist EXCEPT !.cancelled = @ \cup r.victims,
                                   !.detached = @ \cup r.victims,
                                   !.underflow = @ \/ r.underflow]
           /\ \E crash \in (IF r.underflow THEN BOOLEAN ELSE {FALSE}) :
                process' = IF crash \/ r.kills
                           THEN [process EXCEPT !.state = "killed"]
                           ELSE process
    /\ pcMain' = "loop"
    /\ UNCHANGED << control, signo, totalRequests, prevInput, rep, stdin >>

(***************************************************************************)
(* main, lines 430-434: the tracked threads are signalled unless the       *)
(* budget is used up.                                                      *)
(***************************************************************************)
Range(s) == {s[i] : i \in 1..Len(s)}

MainCleanupClearsPool ==
    /\ Alive
    /\ pcMain = "cleanup"
    /\ IF control.numRequestsLeft > 0
       THEN /\ thread' = pthread_kill(thread, Range(httpClientThreads))
            /\ hist' = [hist EXCEPT !.cancelled = @ \cup Range(httpClientThreads)]
            /\ process' = IF KillsProcess(thread, Range(httpClientThreads))
                          THEN [process EXCEPT !.state = "killed"]
                          ELSE process
       ELSE UNCHANGED << thread, hist, process >>
    /\ pcMain' = "join"
    /\ httpClientThreads' = <<>>
    /\ UNCHANGED << control, signo, totalRequests, prevInput, rep, stdin >>

MainCleanup ==
    /\ Alive
    /\ pcMain = "cleanup"
    /\ IF control.numRequestsLeft > 0
       THEN /\ thread' = pthread_kill(thread, Range(httpClientThreads))
            /\ hist' = [hist EXCEPT !.cancelled = @ \cup Range(httpClientThreads)]
            /\ process' = IF KillsProcess(thread, Range(httpClientThreads))
                          THEN [process EXCEPT !.state = "killed"]
                          ELSE process
       ELSE UNCHANGED << thread, hist, process >>
    /\ pcMain' = "join"
    /\ UNCHANGED << control, httpClientThreads, signo, totalRequests,
                    prevInput, rep, stdin >>

(***************************************************************************)
(* main, lines 435-437: join returns once the thread has returned.         *)
(***************************************************************************)
JoinableAtOnce(pool, th) == TRUE

Joinable(pool, th) == \A t \in Range(pool) : th[t].pc = "exited"

MainJoin ==
    /\ Alive
    /\ pcMain = "join"
    /\ Joinable(httpClientThreads, thread)
    /\ pcMain' = "global_cleanup"
    /\ UNCHANGED << control, httpClientThreads, signo, totalRequests,
                    prevInput, rep, thread, stdin, process, hist >>

(***************************************************************************)
(* main, line 438: curl_global_cleanup.                                    *)
(***************************************************************************)
MainGlobalCleanup ==
    /\ Alive
    /\ pcMain = "global_cleanup"
    /\ process' = [process EXCEPT !.curl = FALSE]
    /\ pcMain' = "final_report"
    /\ UNCHANGED << control, httpClientThreads, signo, totalRequests,
                    prevInput, rep, thread, stdin, hist >>

(***************************************************************************)
(* main, lines 441-443: the final report, then the process exits.          *)
(***************************************************************************)
FinalReport ==
    /\ Alive
    /\ pcMain = "final_report"
    /\ ReportDrain
    /\ pcMain' = "final_emit"
    /\ UNCHANGED << httpClientThreads, signo, totalRequests, prevInput,
                    thread, stdin, process >>

FinalEmit ==
    /\ Alive
    /\ pcMain = "final_emit"
    /\ ReportEmit
    /\ pcMain' = "done"
    /\ process' = [process EXCEPT !.state = "exited"]
    /\ UNCHANGED << control, httpClientThreads, signo, prevInput, thread,
                    stdin, hist >>

(***************************************************************************)
(* Reconfiguration texts written to stdin in the runs of the whole         *)
(* program: at most one line with one key.                                 *)
(***************************************************************************)
Line(key, value) == key \o <<EQ>> \o value \o <<NL>>

Scripts ==
    {<<>>}
    \cup {Line(KeyConcurrency, v) : v \in {<<"0">>, <<"1">>, <<"3">>, <<"-", "1">>}}
    \cup {Line(KeyThinktime, v) : v \in {<<"0">>, <<"1">>}}
    \cup {Line(KeyOpen, <<"1">>)}

(***************************************************************************)
(* main, lines 360-402: the state when the control loop is entered.        *)
(***************************************************************************)
ControlInit(count, concurrency, thinkTime, open) ==
    [thinkTime |-> thinkTime, running |-> TRUE, numErrors |-> 0,
     numOptionalStuff1 |-> 0, numOptionalStuff2 |-> 0, latencies |-> <<>>,
     concurrency |-> concurrency, open |-> open, numOpenQueuing |-> 0,
     numRequestsLeft |-> count]

HistInit(count, concurrency, thinkTime, open) ==
    [count |-> count, concurrency |-> concurrency, sent |-> 0, appended |-> 0,
     sinceDrain |-> 0, drained |-> FALSE, lastBatch |-> 0, ids |-> <<>>, returned |-> <<>>,
     cancelled |-> {}, detached |-> {}, underflow |-> FALSE,
     stopped |-> FALSE,
     written |-> [carry |-> <<>>, malformed |-> FALSE,
                  expected |-> [thinkTime |-> thinkTime,
                                concurrency |-> concurrency,
                                open |-> open]]]

StartWith(count, concurrency, thinkTime, open, text, clock) ==
    /\ control = ControlInit(count, concurrency, thinkTime, open)
    /\ pcMain = "loop"
    /\ httpClientThreads = [i \in 1..concurrency |-> i]
    /\ signo = NoSignal
    /\ totalRequests = 0
    /\ prevInput = <<>>
    /\ rep = NoReport
    /\ thread = [t \in Threads |-> IF t <= concurrency
                                   THEN [ThreadInit EXCEPT !.pc = "start"]
                                   ELSE ThreadInit]
    /\ stdin = text
    /\ process = [state |-> "running", curl |-> TRUE, clock |-> clock]
    /\ hist = HistInit(count, concurrency, thinkTime, open)

Start(count, concurrency, thinkTime, open, text) ==
    StartWith(count, concurrency, thinkTime, open, text, FALSE)

(***************************************************************************)
(* The runs checked: every budget, concurrency and think time; the closed  *)
(* model with every script, and the open model (which is read only with    *)
(* thinkTime > 0) with the scripts of OpenScripts.                         *)
(***************************************************************************)
OpenScripts == {<<>>, Line(KeyThinktime, <<"0">>), Line(KeyConcurrency, <<"1">>)}

Init ==
    \E count \in 1..MaxBudget, concurrency \in Concurrencies,
       thinkTime \in ThinkTimes, open \in BOOLEAN, text \in Scripts :
         /\ open => thinkTime > 0 /\ text \in OpenScripts
         /\ Start(count, concurrency, thinkTime, open, text)

ThreadStep(t) ==
    \/ ThreadStart(t)
    \/ ThreadLoop(t)
    \/ ThreadWait(t)
    \/ ThreadSend(t)

MainStep ==
    \/ MainLoop
    \/ MainReport
    \/ MainEmit
    \/ MainInput
    \/ MainReconcile
    \/ MainCleanup
    \/ MainJoin
    \/ MainGlobalCleanup
    \/ FinalReport
    \/ FinalEmit

Next ==
    \/ \E t \in Threads : ThreadStep(t)
    \/ MainStep

Spec == Init /\ [][Next]_vars

(***************************************************************************)
(* Properties of the whole program (specification Spec).                   *)
(***************************************************************************)
Exited == process.state = "exited"
Born == {t \in Threads : thread[t].pc # "unborn"}
NoDuplicates(s) == \A i, j \in 1..Len(s) : s[i] = s[j] => i = j

(* C1: a run that ends because the budget is used up, with no external     *)
(* stop, has sent at least count and at most count + concurrency - 1       *)
(* requests.                                                               *)
C1_BudgetBounds ==
    (Exited /\ ~hist.stopped /\ ~hist.underflow)
        => /\ hist.sent >= hist.count
           /\ hist.sent <= hist.count + hist.concurrency - 1

(* C3: with a negative concurrency the reconciliation ends with no tracked *)
(* thread and never takes the back of an empty pool.                       *)
C3_NegativeConcurrencyShrinksToZero ==
    (control.concurrency < 0 /\ pcMain # "reconcile")
        => (Len(httpClientThreads) = 0 /\ ~hist.underflow)

(* C4: when curl_global_cleanup has run, every thread ever started has     *)
(* returned, the detached ones included.                                   *)
C4_AllThreadsExitedBeforeGlobalCleanup ==
    ~process.curl => \A t \in Born : thread[t].pc = "exited"

(* C5: a thread that has been sent the cancellation starts no new request. *)
C5_NoSendAfterCancellation ==
    [][\A t \in Threads :
          (t \in hist.cancelled /\ thread[t].pc # "send")
              => thread'[t].pc # "send"]_vars

(* C6: outside the moment between processInput and the reconciliation, the *)
(* pool tracks exactly control.concurrency threads (when that is >= 0),    *)
(* and every thread dropped from the pool has been sent the cancellation   *)
(* (it is pending, or the thread has returned).                            *)
C6_PoolMatchesConcurrency ==
    (pcMain # "reconcile" /\ control.concurrency >= 0 /\ Alive)
        => /\ Len(httpClientThreads) = control.concurrency
           /\ \A t \in hist.detached :
                thread[t].sigusr2 \/ thread[t].pc = "exited"

C6_Witness ==
    /\ pcMain = "loop"
    /\ Alive
    /\ hist.concurrency = 2
    /\ control.concurrency = 3
    /\ Len(httpClientThreads) = 3

(* C7: the samples returned by the drains so far and the samples still in  *)
(* control.latencies are, without repetition, exactly the samples appended *)
(* so far; and the total a report prints is the number of samples appended *)
(* before its drain.                                                       *)
C7_DrainsPartitionSamples ==
    /\ NoDuplicates(hist.returned \o hist.ids)
    /\ Range(hist.returned \o hist.ids) = 1..hist.appended
    /\ Len(hist.ids) = Len(control.latencies)
    /\ rep.printed => rep.totalRequests = rep.appended

C7_Witness ==
    /\ rep.printed
    /\ Len(rep.latencies) = 1
    /\ Len(hist.returned) = 2
    /\ Len(control.latencies) = 0

(* C8: a drain with no append since the drain before it returns no errors, *)
(* no classifier counts and no samples, and leaves the total unchanged.    *)
C8_SecondDrainEmpty ==
    (rep.printed /\ rep.second /\ rep.fresh = 0)
        => /\ rep.numErrors = 0
           /\ rep.numOptionalStuff1 = 0
           /\ rep.numOptionalStuff2 = 0
           /\ rep.latencies = <<>>
           /\ rep.totalRequests = rep.prevTotal

C8_Witness ==
    /\ rep.printed
    /\ rep.second
    /\ rep.fresh = 0
    /\ rep.prevBatch = 2
    /\ rep.totalRequests = 2

(* The counters of the statistics never reach StatCap under a budget of at *)
(* most MaxBudget.                                                         *)
CapNeverBinds ==
    /\ hist.sent <= hist.count
    /\ hist.appended <= hist.sent
    /\ Len(control.latencies) < StatCap
    /\ totalRequests < StatCap
    /\ control.numOpenQueuing < StatCap

(***************************************************************************)
(* The statistics alone: report's locals hold a drained sample vector, and *)
(* the only step is the computation of the line it prints.                 *)
(***************************************************************************)
SampleValues == {100, 200, 300, 400}

RECURSIVE Vectors(_)
Vectors(n) ==
    IF n = 0 THEN {<<>>}
    ELSE LET shorter == Vectors(n - 1)
         IN  shorter \cup {Append(v, x) : v \in {w \in shorter : Len(w) = n - 1},
                                          x \in SampleValues}

StatsInit ==
    \E a \in Vectors(MaxSamples) :
      /\ control = ControlInit(1, 1, 0, FALSE)
      /\ pcMain = "emit"
      /\ httpClientThreads = <<1>>
      /\ signo = NoSignal
      /\ totalRequests = 0
      /\ prevInput = <<>>
      /\ rep = [NoReport EXCEPT !.latencies = a, !.appended = Len(a),
                                !.fresh = Len(a)]
      /\ thread = [t \in Threads |-> IF t = 1 THEN [ThreadInit EXCEPT !.pc = "start"]
                                     ELSE ThreadInit]
      /\ stdin = <<>>
      /\ process = [state |-> "running", curl |-> TRUE, clock |-> FALSE]
      /\ hist = HistInit(1, 1, 0, FALSE)

SpecStats == StatsInit /\ [][MainEmit]_vars

(* C2: for a sample vector that is not empty, minimum <= Q1 <= median <=   *)
(* Q3 <= maximum, and no position outside the vector is read.              *)
C2_QuartilesOrdered ==
    (rep.printed /\ Len(rep.latencies) >= 1)
        => /\ rep.quartiles[1] <= rep.quartiles[2]
           /\ rep.quartiles[2] <= rep.quartiles[3]
           /\ rep.quartiles[3] <= rep.quartiles[4]
           /\ rep.quartiles[4] <= rep.quartiles[5]
           /\ \A i \in quartilesReads(rep.latencies) :
                i >= 0 /\ i < Len(rep.latencies)

(***************************************************************************)
(* processInput alone: a text is written to stdin and read in pieces, tick *)
(* after tick.                                                             *)
(***************************************************************************)
Pieces == { KeyFoo \o <<EQ, "1", EQ, "1">>, KeyOpen \o <<EQ, "1">>,
            KeyConcurrency \o <<EQ, "2">>, KeyThinktime \o <<EQ, "1">>,
            <<SP>>, <<NL>> }

RECURSIVE Texts(_)
Texts(n) ==
    IF n = 0 THEN {<<>>}
    ELSE LET shorter == Texts(n - 1)
         IN  shorter \cup {t \o p : t \in shorter, p \in Pieces}

InputInit ==
    \E text \in Texts(MaxPieces) :
      /\ control = ControlInit(1, 1, 0, FALSE)
      /\ pcMain = "input"
      /\ httpClientThreads = <<1>>
      /\ signo = NoSignal
      /\ totalRequests = 0
      /\ prevInput = <<>>
      /\ rep = NoReport
      /\ thread = [t \in Threads |-> IF t = 1 THEN [ThreadInit EXCEPT !.pc = "start"]
                                     ELSE ThreadInit]
      /\ stdin = text
      /\ process = [state |-> "running", curl |-> TRUE, clock |-> FALSE]
      /\ hist = HistInit(1, 1, 0, FALSE)

InputTick ==
    /\ pcMain = "input"
    /\ \E k \in 0..Len(stdin) : ReadInput(SubSeq(stdin, 1, k))
    /\ UNCHANGED << pcMain, httpClientThreads, signo, totalRequests, rep,
                    thread, process >>

SpecInput == InputInit /\ [][InputTick]_vars

(* C9: when the lines completed by a read hold a malformed token, the      *)
(* tunables are those that result from applying every well-formed token of *)
(* every line completed so far, and nothing else.                          *)
C9_MalformedTokenSkipped ==
    hist.written.malformed => Tunables(control) = hist.written.expected

(***************************************************************************)
(* The whole program under fair scheduling: main and every thread that can *)
(* take a step eventually takes one.  The budget is either finite or the   *)
(* default of --count, INT_MAX, which no run uses up.                      *)
(***************************************************************************)
FairInit ==
    \E count \in {1, INT_MAX}, concurrency \in Concurrencies,
       thinkTime \in ThinkTimes :
         Start(count, concurrency, thinkTime, FALSE, <<>>)

FairSpec ==
    /\ FairInit
    /\ [][Next]_vars
    /\ WF_vars(MainStep)
    /\ \A t \in Threads : WF_vars(ThreadStep(t))

(* C10: once the stop signal has been received, the process eventually     *)
(* stops running (main returns after the final report, or the process is   *)
(* terminated), whatever the think time and the budget.                    *)
C10_StopLeadsToExit == hist.stopped ~> (process.state # "running")

(***************************************************************************)
(* Further properties of the whole program (specification Spec).           *)
(***************************************************************************)

(* C11: control.numOpenQueuing never decreases; it changes only by +1, in  *)
(* a step of a thread that enters its think-time wait with control.open    *)
(* set; no step of main (the drains included) changes it.                  *)
C11_QueuingOnlyIncrementedByOpenWorkers ==
    [][/\ control'.numOpenQueuing >= control.numOpenQueuing
       /\ control'.numOpenQueuing # control.numOpenQueuing
            => /\ control'.numOpenQueuing = control.numOpenQueuing + 1
               /\ control.open
               /\ pcMain' = pcMain
               /\ \E t \in Threads :
                    thread[t].pc = "loop" /\ thread'[t].pc = "wait"]_vars

C11_Witness ==
    /\ rep.printed
    /\ rep.second
    /\ rep.numOpenQueuing = 2
    /\ control.numOpenQueuing = 2

(* C12: in a tick the drain (and the line printed from it) comes before    *)
(* processInput, which comes before the reconciliation; the tunables       *)
(* change only in processInput, the pool only in the reconciliation, and   *)
(* the reconciliation that follows processInput leaves the pool at the     *)
(* concurrency just read (when that is >= 0).                              *)
C12_DrainThenInputThenReconcile ==
    [][/\ httpClientThreads' # httpClientThreads
            => (pcMain = "reconcile" /\ pcMain' = "loop")
       /\ Tunables(control') # Tunables(control)
            => (pcMain = "input" /\ pcMain' = "reconcile")
       /\ (pcMain = "report" /\ pcMain' # pcMain)
            => (pcMain' = "emit" /\ control'.latencies = <<>>
                /\ Tunables(control') = Tunables(control))
       /\ (pcMain = "emit" /\ pcMain' # pcMain) => pcMain' = "input"
       /\ (pcMain = "input" /\ pcMain' # pcMain) => pcMain' = "reconcile"
       /\ (pcMain = "reconcile" /\ pcMain' # pcMain)
            => /\ pcMain' = "loop"
               /\ (control.concurrency >= 0 /\ process'.state = "running")
                    => Len(httpClientThreads') = control.concurrency]_vars

C12_Witness ==
    /\ pcMain = "loop"
    /\ Alive
    /\ hist.concurrency = 2
    /\ control.concurrency = 0
    /\ httpClientThreads = <<>>
    /\ hist.detached = {1, 2}
    /\ stdin = <<>>

(***************************************************************************)
(* Further properties of the statistics (specification SpecStats).         *)
(***************************************************************************)
Slice(s, from, to) == SubSeq(s, from + 1, to)

SliceMedian(s) ==
    IF s = <<>> THEN NAN
    ELSE IF Len(s) % 2 = 1 THEN s[(Len(s) + 1) \div 2]
    ELSE (s[Len(s) \div 2] + s[Len(s) \div 2 + 1]) \div 2

(* C13: for a sample vector that is not empty, the five values printed are *)
(* the first and the last element of the sorted vector, the median of the  *)
(* whole, the median of the positions [0, n/2) and the median of the       *)
(* positions [n/2, n), a median being the middle element of a slice of odd *)
(* length and the mean of the two middle elements of one of even length.   *)
C13_QuartilesExact ==
    (rep.printed /\ Len(rep.latencies) >= 1)
        => LET s == StdSort(rep.latencies)
               n == Len(s)
           IN  rep.quartiles = << s[1],
                                  SliceMedian(Slice(s, 0, n \div 2)),
                                  SliceMedian(s),
                                  SliceMedian(Slice(s, n \div 2, n)),
                                  s[n] >>

(* The same for vectors of two samples or more, for which every slice has  *)
(* an element: it holds, and gives 100, 150, 250, 350, 400 for the vector  *)
(* 100, 200, 300, 400.                                                     *)
QuartilesExactFromTwo ==
    (rep.printed /\ Len(rep.latencies) >= 2)
        => LET s == StdSort(rep.latencies)
               n == Len(s)
           IN  /\ rep.quartiles = << s[1],
                                     SliceMedian(Slice(s, 0, n \div 2)),
                                     SliceMedian(s),
                                     SliceMedian(Slice(s, n \div 2, n)),
                                     s[n] >>
               /\ rep.latencies = <<100, 200, 300, 400>>
                    => rep.quartiles = <<100, 150, 250, 350, 400>>

(***************************************************************************)
(* Properties of the whole program that concern the statistics             *)
(* (specification Spec).                                                   *)
(***************************************************************************)

(* C14: the line printed from a drain that returned no sample has NAN for  *)
(* the five quartiles, the two percentiles, the average and the two rates, *)
(* and no position of the empty vector is read.                            *)
C14_EmptyDrainPrintsNaN ==
    (rep.printed /\ rep.latencies = <<>>)
        => /\ rep.quartiles = <<NAN, NAN, NAN, NAN, NAN>>
           /\ rep.percentiles = <<NAN, NAN>>
           /\ rep.average = NAN
           /\ rep.rr = NAN
           /\ rep.cr = NAN
           /\ StatReads(rep.latencies) = {}
           /\ ~rep.oob

C14_Witness ==
    /\ rep.printed
    /\ rep.latencies = <<>>
    /\ rep.rr = NAN
    /\ rep.second
    /\ rep.prevBatch = 1
    /\ hist.appended = 1

(***************************************************************************)
(* Further properties of processInput (specification SpecInput).           *)
(***************************************************************************)

(* C15: when processInput has returned, every line completed by the text   *)
(* read so far has been applied, and the buffer holds no newline: it is    *)
(* the text after the last newline read.                                   *)
C15_EveryCompleteLineApplied ==
    /\ \A i \in 1..Len(prevInput) : prevInput[i] # NL
    /\ prevInput = hist.written.carry
    /\ Tunables(control) = hist.written.expected

(***************************************************************************)
(* Properties of the whole program that concern the cancellation           *)
(* (specification Spec).                                                   *)
(***************************************************************************)

(* C16: SIGUSR2 sent to a thread never terminates the process: unless the  *)
(* reconciliation has taken the back of an empty pool, the process is      *)
(* never ended by a signal.                                                *)
C16_CancellationNeverKillsProcess ==
    ~hist.underflow => process.state # "killed"

(***************************************************************************)
(* The whole program in the open model, with the time followed: one        *)
(* thread, thinkTime > 0, every budget up to MaxBudget + 1.                *)
(***************************************************************************)
OpenInit ==
    \E count \in 1..(MaxBudget + 1) :
        StartWith(count, 1, 1, TRUE, <<>>, TRUE)

SpecOpen == OpenInit /\ [][Next]_vars

(* C17: in the open model with thinkTime > 0, a thread that begins a think *)
(* time moves lastArrivalTime forward by the sampled interval whatever the *)
(* latencies were, waits max(lastArrivalTime + interval - now, 0), and     *)
(* adds one to numOpenQueuing exactly when that wait is 0; and when every  *)
(* interval after the first was shorter than the latency of the request    *)
(* before it, every think time from the second on adds one.                *)
C17_OpenLoopArrivalSchedule ==
    [][\A t \in Threads :
         (Timed /\ control.open /\ thread[t].pc = "loop" /\ thread'[t].pc = "wait")
            => LET interval == thread'[t].lastArrivalTime - thread[t].lastArrivalTime
                   wait == thread'[t].wake - thread[t].now
                   added == control'.numOpenQueuing - control.numOpenQueuing
               IN  /\ interval \in Intervals
                   /\ wait = Max(thread[t].lastArrivalTime + interval
                                   - thread[t].now, 0)
                   /\ added = (IF wait = 0 THEN 1 ELSE 0)
                   /\ (thread'[t].slow /\ thread[t].iterations >= 1)
                        => added = 1]_vars

C17_Witness ==
    /\ Timed
    /\ control.open
    /\ thread[1].slow
    /\ thread[1].iterations = 3
    /\ control.numOpenQueuing = 2

(***************************************************************************)
(* Properties of the whole program that concern the budget (specification  *)
(* Spec).                                                                  *)
(***************************************************************************)

(* C18: when main has returned in a run with no stop signal and no thread  *)
(* cancelled, every thread started has returned, every request sent has    *)
(* been recorded, and the total printed by the final report is the number  *)
(* of requests sent, which is the budget.                                  *)
C18_FinalTotalCountsEveryRequest ==
    (Exited /\ ~hist.stopped /\ hist.cancelled = {} /\ ~hist.underflow)
        => /\ \A t \in Born : thread[t].pc = "exited"
           /\ hist.appended = hist.sent
           /\ rep.printed
           /\ rep.totalRequests = hist.sent
           /\ hist.sent = hist.count

C18_Witness ==
    /\ Exited
    /\ ~hist.stopped
    /\ hist.cancelled = {}
    /\ hist.concurrency = 2
    /\ rep.totalRequests = 2
    /\ Len(rep.latencies) = 1

(* C19: numRequestsLeft never increases; the requests started never exceed *)
(* the budget; a thread goes on to its think time or its request only when *)
(* its decrement left numRequestsLeft >= 0, and a thread that finds the    *)
(* budget used up returns without a request.                               *)
C19_SendsNeverExceedBudget ==
    [][/\ control'.numRequestsLeft <= control.numRequestsLeft
       /\ hist'.sent <= hist.count
       /\ \A t \in Threads :
            /\ (thread[t].pc = "loop" /\ thread'[t].pc \in {"wait", "send"})
                 => (control'.numRequestsLeft >= 0
                     /\ control'.numRequestsLeft = control.numRequestsLeft - 1)
            /\ (thread[t].pc = "loop" /\ control.numRequestsLeft <= 0)
                 => thread'[t].pc \in {"loop", "exited"}]_vars

C19_Witness ==
    /\ hist.count = 1
    /\ hist.concurrency = 1
    /\ control.concurrency = 3
    /\ hist.sent = 1
    /\ control.numRequestsLeft = -3
    /\ \A t \in {1, 2, 3} : thread[t].pc = "exited"

(* C20: in control, and in the locals of report after a drain, numErrors,  *)
(* numOptionalStuff1 and numOptionalStuff2 are each at most the number of  *)
(* samples, and the samples in control are those appended since the last   *)
(* drain, one for every request completed, failed or not.                  *)
C20_CountersBoundedBySamples ==
    /\ control.numErrors <= Len(control.latencies)
    /\ control.numOptionalStuff1 <= Len(control.latencies)
    /\ control.numOptionalStuff2 <= Len(control.latencies)
    /\ rep.numErrors <= Len(rep.latencies)
    /\ rep.numOptionalStuff1 <= Len(rep.latencies)
    /\ rep.numOptionalStuff2 <= Len(rep.latencies)
    /\ Len(control.latencies) = hist.sinceDrain

C20_Witness ==
    /\ control.numErrors = 1
    /\ Len(control.latencies) = 1
    /\ rep.numErrors = 1
    /\ rep.numOptionalStuff2 = 1
    /\ Len(rep.latencies) = 1

====
